---------------------------- MODULE Spec2Model ----------------------------
(***************************************************************************)
(* A model of the roosearch semantic code search tool.                     *)
(*                                                                         *)
(* Two implementations of the same pipeline live in the repository: the    *)
(* plugin (src/.opencode/plugin/roosearch.ts), parameterized by the        *)
(* workspace directory, and the stand-alone tool (src/unnamed/part_000),   *)
(* hardcoded to one collection.  An invocation embeds the query through an *)
(* HTTP endpoint, queries the vector database with the first embedding,    *)
(* filters and normalizes the points, and renders a text report.  The      *)
(* embedding service and the vector database are the environment: every    *)
(* answer they can give is a nondeterministic choice from a bounded set.   *)
(*                                                                         *)
(* Text is modelled by TLA+ strings, so formatting, trimming and prefixes  *)
(* are computed character by character.  A JavaScript value is a record    *)
(* tagged with its type.  Numbers are fixed-point integers in units of     *)
(* 1/10000 (0.9 is 9000, line 10 is 100000).  A computation that may throw *)
(* yields Ok(value) or Throw(error).                                       *)
(***************************************************************************)
EXTENDS Integers, Sequences, FiniteSets, TLC

(***************************************************************************)
(* Bounds of the model.                                                    *)
(***************************************************************************)
\* The longest list of well-formed points the vector database answers with
\* (Spec).
MaxPoints == 3
\* The longest list it answers with when any point may be malformed (Spec).
MaxAnyPoints == 2
\* The longest list of points under two concurrent invocations (SpecConc).
MaxConcPoints == 1

(***************************************************************************)
(* JavaScript values.                                                      *)
(***************************************************************************)
Undefined == [t |-> "undefined"]
Null == [t |-> "null"]
Str(s) == [t |-> "string", s |-> s]
\* The number whole + frac/10000.
Num(whole, frac) == [t |-> "number", n |-> whole * 10000 + frac]
Obj(fields) == [t |-> "object", fields |-> fields]
Arr(items) == [t |-> "array", items |-> items]
NoFields == [k \in {} |-> Undefined]

\* ToBoolean: undefined, null, 0 and "" are falsy.
Truthy(v) ==
  CASE v.t = "undefined" -> FALSE
    [] v.t = "null" -> FALSE
    [] v.t = "number" -> v.n # 0
    [] v.t = "string" -> v.s # ""
    [] OTHER -> TRUE

\* o.key for an object o: undefined when the key is missing.
Get(o, key) == IF key \in DOMAIN o.fields THEN o.fields[key] ELSE Undefined

Ok(v) == [threw |-> FALSE, value |-> v]
Throw(e) == [threw |-> TRUE, error |-> e]

\* new Error(message), and the engine's TypeError (an Error as well).
NewError(message) ==
  [isError |-> TRUE, name |-> "Error", message |-> message]
TypeError(message) ==
  [isError |-> TRUE, name |-> "TypeError", message |-> message]
\* A thrown value that is no Error object.
NonError(v) == [isError |-> FALSE, value |-> v]

(***************************************************************************)
(* Text.                                                                   *)
(***************************************************************************)
\* The whitespace of String.prototype.trim that the texts of the model use.
IsWhitespace(c) == c \in {" ", "\n", "\t", "\r"}

RECURSIVE TrimStart(_)
TrimStart(s) ==
  IF s = "" THEN ""
  ELSE IF IsWhitespace(Head(s)) THEN TrimStart(Tail(s)) ELSE s

RECURSIVE TrimEnd(_)
TrimEnd(s) ==
  IF s = "" THEN ""
  ELSE IF IsWhitespace(SubSeq(s, Len(s), Len(s)))
       THEN TrimEnd(SubSeq(s, 1, Len(s) - 1)) ELSE s

\* A trim of the leading whitespace only.
TrimLeadingOnly(s) == TrimStart(s)

\* String.prototype.trim
Trim(s) == TrimEnd(TrimStart(s))

\* The decimal digits of d, 0 <= d < 10^width, padded with zeros to width.
RECURSIVE Digits(_, _)
Digits(d, width) ==
  IF width = 0 THEN ""
  ELSE Digits(d \div 10, width - 1) \o ToString(d % 10)

RECURSIVE StripZeros(_)
StripZeros(s) ==
  IF s # "" /\ SubSeq(s, Len(s), Len(s)) = "0"
  THEN StripZeros(SubSeq(s, 1, Len(s) - 1)) ELSE s

\* Number.prototype.toString of a non-negative number: 100000 is "10",
\* 9000 is "0.9".
NumberToString(n) ==
  IF n % 10000 = 0 THEN ToString(n \div 10000)
  ELSE ToString(n \div 10000) \o "." \o StripZeros(Digits(n % 10000, 4))

\* Number.prototype.toFixed(3) of a non-negative number: rounds to the
\* nearest thousandth and always prints three decimals.
ToFixed3(n) ==
  LET thousandths == (n + 5) \div 10
  IN  ToString(thousandths \div 1000) \o "." \o Digits(thousandths % 1000, 3)

\* `${v}` in a template literal.
TemplateString(v) ==
  CASE v.t = "string" -> v.s
    [] v.t = "number" -> NumberToString(v.n)
    [] v.t = "undefined" -> "undefined"
    [] v.t = "null" -> "null"
    [] OTHER -> "[object Object]"

\* Array.prototype.join
RECURSIVE Join(_, _)
Join(parts, sep) ==
  IF parts = <<>> THEN ""
  ELSE IF Len(parts) = 1 THEN parts[1]
  ELSE parts[1] \o sep \o Join(Tail(parts), sep)

(***************************************************************************)
(* Configuration.                                                          *)
(***************************************************************************)
ROO_SEARCH_CONFIG ==
  [ qdrantClientUrl |-> "http://localhost:6333",
    embeddingServiceUrl |-> "http://localhost:11434/api/embed",
    embeddingModel |-> "nomic-embed-text",
    searchScoreThreshold |-> Num(0, 4000),
    searchLimit |-> 50,
    hnswEf |-> 128,
    hnswExact |-> FALSE,
    payloadIncludeFields |->
      <<"filePath", "codeChunk", "startLine", "endLine", "pathSegments">>,
    hashLength |-> 16 ]

\* The workspace the stand-alone tool was deployed for: the path whose
\* digest starts with the tool's hardcoded collection name.  Its text and
\* the digits of its digest after the sixteenth are not known.
DeployedWorkspace == "/deployed/workspace"

WorkspacePaths == {"/home/dev/app", DeployedWorkspace}

\* createHash("sha256").update(path).digest("hex"), tabulated for the
\* workspace paths of the model.
Sha256Hex(path) ==
  CASE path = "/home/dev/app" ->
         "720d8948da0bcc78a2caee13f1ca58a1ffd37756430e9700be128c797528407b"
    [] path = DeployedWorkspace ->
         "e9be3207f7247f18000000000000000000000000000000000000000000000000"

getWorkspaceVectorStoreName(workspacePath) ==
  LET hash == Sha256Hex(workspacePath)
  IN  "ws-" \o SubSeq(hash, 1, ROO_SEARCH_CONFIG.hashLength)


(***************************************************************************)
(* Filter and transform.                                                   *)
(***************************************************************************)
\* A filter callback that forgets the check of startLine.
IsValidResultNoStartLine(result) ==
  IF result.t # "object"
  THEN Throw(TypeError("Cannot read properties of null (reading 'payload')"))
  ELSE LET payload == Get(result, "payload")
       IN  IF ~Truthy(payload) THEN Ok(FALSE)
           ELSE IF payload.t # "object"
           THEN Throw(TypeError("Cannot use 'in' operator"))
           ELSE Ok(/\ "filePath" \in DOMAIN payload.fields
                   /\ Truthy(Get(payload, "filePath"))
                   /\ Truthy(Get(payload, "endLine"))
                   /\ Truthy(Get(payload, "codeChunk")))

\* The callback of results.filter: the && chain, left to right.  Reading
\* .payload of a point that is null, or applying `in` to a payload that is
\* a primitive, throws a TypeError.
IsValidResult(result) ==
  IF result.t # "object"
  THEN Throw(TypeError("Cannot read properties of null (reading 'payload')"))
  ELSE LET payload == Get(result, "payload")
       IN  IF ~Truthy(payload) THEN Ok(FALSE)
           ELSE IF payload.t # "object"
           THEN Throw(TypeError(
                  "Cannot use 'in' operator to search for 'filePath' in "
                  \o TemplateString(payload)))
           ELSE Ok(/\ "filePath" \in DOMAIN payload.fields
                   /\ Truthy(Get(payload, "filePath"))
                   /\ Truthy(Get(payload, "startLine"))
                   /\ Truthy(Get(payload, "endLine"))
                   /\ Truthy(Get(payload, "codeChunk")))

filterValidResults(results) ==
  IF results.t # "array"
  THEN Throw(TypeError("Cannot read properties of undefined (reading 'filter')"))
  ELSE LET items == results.items
           thrown == {k \in 1..Len(items) : IsValidResult(items[k]).threw}
       IN  IF thrown # {}
           THEN IsValidResult(items[CHOOSE k \in thrown :
                                      \A j \in thrown : k <= j])
           ELSE Ok(SelectSeq(items, LAMBDA r : IsValidResult(r).value))

\* A SearchResult, or Null.  .trim() of a code chunk that is no string
\* throws a TypeError.
transformSearchResult(result) ==
  LET payload == Get(result, "payload")
  IN  IF ~Truthy(payload) \/ "filePath" \notin DOMAIN payload.fields
      THEN Ok(Null)
      ELSE LET codeChunk == Get(payload, "codeChunk")
           IN  IF codeChunk.t # "string"
               THEN Throw(TypeError(
                      "result.payload.codeChunk.trim is not a function"))
               ELSE Ok([ t |-> "result",
                         filePath |-> Get(payload, "filePath"),
                         score |-> Get(result, "score"),
                         startLine |-> Get(payload, "startLine"),
                         endLine |-> Get(payload, "endLine"),
                         codeChunk |-> Trim(codeChunk.s) ])

\* filter, then map, then drop the nulls.
transformResults(results) ==
  LET filteredResults == filterValidResults(results)
  IN  IF filteredResults.threw THEN filteredResults
      ELSE LET kept == filteredResults.value
               mapped == [k \in 1..Len(kept) |-> transformSearchResult(kept[k])]
               thrown == {k \in 1..Len(kept) : mapped[k].threw}
           IN  IF thrown # {}
               THEN mapped[CHOOSE k \in thrown : \A j \in thrown : k <= j]
               ELSE Ok(SelectSeq([k \in 1..Len(kept) |-> mapped[k].value],
                                 LAMBDA r : r # Null))

(***************************************************************************)
(* Format.                                                                 *)
(***************************************************************************)
\* The code fence of a result block: three backquotes, which a TLA+ string
\* cannot hold and which are written as three tildes here.
Fence == "~~~"

\* One result block.  .toFixed of a score that is no number throws.
formatSearchResult(result) ==
  IF result.score.t # "number"
  THEN Throw(TypeError(
         IF result.score.t \in {"undefined", "null"}
         THEN "Cannot read properties of " \o TemplateString(result.score)
              \o " (reading 'toFixed')"
         ELSE "result.score.toFixed is not a function"))
  ELSE Ok("File: " \o TemplateString(result.filePath) \o "\n"
          \o "Score: " \o ToFixed3(result.score.n) \o "\n"
          \o "Lines: " \o TemplateString(result.startLine) \o "-"
          \o TemplateString(result.endLine) \o "\n"
          \o "Code:\n"
          \o Fence \o "\n"
          \o result.codeChunk \o "\n"
          \o Fence \o "\n")

\* The comparator turned around: (a, b) => a.score - b.score.
CompareScoresAscending(a, b) ==
  IF a.score.t = "number" /\ b.score.t = "number"
  THEN a.score.n - b.score.n
  ELSE 0

\* The comparator (a, b) => b.score - a.score: positive when b goes first.
\* A difference that is NaN counts as 0.
CompareScores(a, b) ==
  IF a.score.t = "number" /\ b.score.t = "number"
  THEN b.score.n - a.score.n
  ELSE 0

\* x put into the sorted list acc, behind every element that does not have
\* to follow it.
RECURSIVE InsertSorted(_, _)
InsertSorted(acc, x) ==
  IF acc = <<>> THEN <<x>>
  ELSE LET last == acc[Len(acc)]
       IN  IF CompareScores(last, x) > 0
           THEN Append(InsertSorted(SubSeq(acc, 1, Len(acc) - 1), x), last)
           ELSE Append(acc, x)

\* [...resultsArray].sort(comparator): Array.prototype.sort is stable, so
\* with a comparator that orders the elements its result is the one an
\* insertion sort gives.
RECURSIVE SortByScore(_)
SortByScore(results) ==
  IF results = <<>> THEN <<>>
  ELSE InsertSorted(SortByScore(SubSeq(results, 1, Len(results) - 1)),
                    results[Len(results)])

\* An 's' whatever the count.
PluralAlways(count) == "s"

\* 's' unless the count is 1.
Plural(count) == IF count # 1 THEN "s" ELSE ""

\* An empty report that ends with a line break.
NoResultsReportWithNewline(query) ==
  "Query: \"" \o query \o "\"\n\nNo results found.\n"

\* The report on an empty list of results.
NoResultsReport(query) ==
  "Query: \"" \o query \o "\"\n\nNo results found."

formatResults(results, query) ==
  IF Len(results) = 0
  THEN Ok(NoResultsReport(query))
  ELSE LET sortedResults == SortByScore(results)
           blocks == [k \in 1..Len(sortedResults) |->
                        formatSearchResult(sortedResults[k])]
           thrown == {k \in 1..Len(sortedResults) : blocks[k].threw}
       IN  IF thrown # {}
           THEN blocks[CHOOSE k \in thrown : \A j \in thrown : k <= j]
           ELSE LET formattedResults ==
                      Join([k \in 1..Len(sortedResults) |-> blocks[k].value],
                           "\n\n")
                IN  Ok("Query: \"" \o query \o "\"\n\n"
                       \o "Found " \o ToString(Len(results)) \o " result"
                       \o Plural(Len(results)) \o ":\n\n"
                       \o formattedResults \o "\n\n"
                       \o "---\n"
                       \o "Search completed with " \o ToString(Len(results))
                       \o " result" \o Plural(Len(results)) \o ".")

(***************************************************************************)
(* The two network stages and the pipeline's catch: the plugin.            *)
(***************************************************************************)
\* error instanceof Error ? error.message : 'Unknown error'
ErrorMessage(error) ==
  IF error.isError THEN error.message ELSE "Unknown error"

\* The fetch call of createEmbeddings.
createEmbeddingsRequest(input) ==
  [ kind |-> "embed",
    url |-> ROO_SEARCH_CONFIG.embeddingServiceUrl,
    method |-> "POST",
    headers |-> [ContentType |-> "application/json"],
    body |-> [model |-> ROO_SEARCH_CONFIG.embeddingModel, input |-> input] ]

\* The error thrown for a response that is not ok.
createEmbeddingsNotOk(response) ==
  NewError("Failed to create embeddings: " \o response.statusText)

\* The catch of createEmbeddings: whatever was thrown is wrapped.
createEmbeddingsCatch(error) ==
  NewError("Embedding creation failed: " \o ErrorMessage(error))

\* embedding.embeddings[0]
FirstEmbedding(embedding) ==
  IF embedding.t # "object"
  THEN Throw(TypeError("Cannot read properties of "
                       \o TemplateString(embedding)
                       \o " (reading 'embeddings')"))
  ELSE LET embeddings == Get(embedding, "embeddings")
       IN  IF embeddings.t # "array"
           THEN Throw(TypeError(
                  "Cannot read properties of undefined (reading '0')"))
           ELSE IF embeddings.items = <<>> THEN Ok(Undefined)
           ELSE Ok(embeddings.items[1])

\* The search request of searchQdrant, built ahead of its try block, and
\* the collection it is sent to.
searchRequest(embedding, workspacePath) ==
  LET first == FirstEmbedding(embedding)
  IN  IF first.threw THEN first
      ELSE Ok([ kind |-> "query",
                url |-> ROO_SEARCH_CONFIG.qdrantClientUrl,
                collection |-> getWorkspaceVectorStoreName(workspacePath),
                query |-> first.value,
                filter |-> Undefined,
                score_threshold |-> ROO_SEARCH_CONFIG.searchScoreThreshold,
                limit |-> ROO_SEARCH_CONFIG.searchLimit,
                params |-> [ hnsw_ef |-> ROO_SEARCH_CONFIG.hnswEf,
                             exact |-> ROO_SEARCH_CONFIG.hnswExact ],
                with_payload |->
                  [include |-> ROO_SEARCH_CONFIG.payloadIncludeFields] ])

\* A catch of searchQdrant that rethrows what it caught, unwrapped.
searchQdrantCatchUnwrapped(error) == error

\* The catch of searchQdrant.
searchQdrantCatch(error) ==
  NewError("Search operation failed: " \o ErrorMessage(error))

\* How an invocation ends: a returned string, or an exception that reaches
\* the caller.
Returned(text) == [kind |-> "returned", value |-> text]
Raised(error) == [kind |-> "raised", error |-> error]
Pending == [kind |-> "pending"]

\* A catch of executeSearchPipeline that handles the errors the two stages
\* wrap and rethrows any other, such as the engine's TypeError.
executeSearchPipelineCatchStageErrors(error) ==
  IF error.isError /\ error.name = "Error"
  THEN Returned("Error executing search: " \o error.message)
  ELSE Raised(error)

\* The catch of executeSearchPipeline: every thrown value becomes a text.
executeSearchPipelineCatch(error) ==
  Returned("Error executing search: " \o ErrorMessage(error))

(***************************************************************************)
(* The same stages of the stand-alone tool, with its literals.  Its        *)
(* filter, transform and format functions are, but for layout and one      *)
(* local name, the text of the plugin's, and are modelled by the           *)
(* definitions above.                                                      *)
(***************************************************************************)
ToolCreateEmbeddingsRequest(input) ==
  [ kind |-> "embed",
    url |-> "http://localhost:11434/api/embed",
    method |-> "POST",
    headers |-> [ContentType |-> "application/json"],
    body |-> [model |-> "nomic-embed-text", input |-> input] ]

ToolCreateEmbeddingsNotOk(response) ==
  NewError("Failed to create embeddings: " \o response.statusText)

ToolCreateEmbeddingsCatch(error) ==
  NewError("Embedding creation failed: " \o ErrorMessage(error))

\* The tool's request with another limit.
ToolSearchRequestLimit10(embedding) ==
  LET first == FirstEmbedding(embedding)
  IN  IF first.threw THEN first
      ELSE Ok([ kind |-> "query",
                url |-> "http://localhost:6333",
                collection |-> "ws-e9be3207f7247f18",
                query |-> first.value,
                filter |-> Undefined,
                score_threshold |-> Num(0, 4000),
                limit |-> 10,
                params |-> [hnsw_ef |-> 128, exact |-> FALSE],
                with_payload |->
                  [include |-> <<"filePath", "codeChunk", "startLine",
                                 "endLine", "pathSegments">>] ])

ToolSearchRequest(embedding) ==
  LET first == FirstEmbedding(embedding)
  IN  IF first.threw THEN first
      ELSE Ok([ kind |-> "query",
                url |-> "http://localhost:6333",
                collection |-> "ws-e9be3207f7247f18",
                query |-> first.value,
                filter |-> Undefined,
                score_threshold |-> Num(0, 4000),
                limit |-> 50,
                params |-> [hnsw_ef |-> 128, exact |-> FALSE],
                with_payload |->
                  [include |-> <<"filePath", "codeChunk", "startLine",
                                 "endLine", "pathSegments">>] ])

ToolSearchQdrantCatch(error) ==
  NewError("Search operation failed: " \o ErrorMessage(error))

ToolExecuteSearchPipelineCatch(error) ==
  Returned("Error executing search: " \o ErrorMessage(error))

(***************************************************************************)
(* The environment: what the host asks, and what the embedding service and *)
(* the vector database can answer.                                         *)
(***************************************************************************)
Queries == {"parse json", "x"}

\* What fetch, response.json() or qdrantClient.query can throw.
ThrownValues ==
  { NewError("fetch failed"), NewError("Not Found"), NonError("ETIMEDOUT") }

\* The HTTP responses of the embedding service.
Responses ==
  { [ok |-> TRUE, statusText |-> "OK"],
    [ok |-> FALSE, statusText |-> "Internal Server Error"] }

Vector1 == Arr(<<Num(0, 1000), Num(0, 2000)>>)
Vector2 == Arr(<<Num(0, 3000), Num(0, 4000)>>)

\* The parsed bodies of an ok response: well formed, empty, without
\* embeddings, and null.
EmbeddingBodies ==
  { Obj([embeddings |-> Arr(<<Vector2, Vector1>>)]),
    Obj([embeddings |-> Arr(<<>>)]),
    Obj([error |-> Str("model not found")]),
    Null }

Payload(filePath, startLine, endLine, codeChunk) ==
  Obj([ filePath |-> filePath, startLine |-> startLine,
        endLine |-> endLine, codeChunk |-> codeChunk ])

Point(id, score, payload) ==
  Obj([id |-> Num(id, 0), score |-> score, payload |-> payload])

\* The point of a.ts: score 0.8, lines 10-20, code "  foo()  ".
PointA ==
  Point(1, Num(0, 8000),
        Payload(Str("a.ts"), Num(10, 0), Num(20, 0), Str("  foo()  ")))

\* Points with every required field.
ValidPoints ==
  { PointA,
    Point(2, Num(0, 9000),
          Payload(Str("b.ts"), Num(1, 0), Num(5, 0), Str("bar()"))),
    Point(3, Num(0, 3000),
          Payload(Str("c.ts"), Num(7, 0), Num(9, 0), Str("\tbaz(1, 2)\n"))),
    Point(4, Num(0, 7000),
          Payload(Str("d.ts"), Num(3, 0), Num(4, 0), Str("qux()"))),
    Point(5, Num(0, 7000),
          Payload(Str("e.ts"), Num(30, 0), Num(42, 0), Str(" \n "))) }

\* Points the filter drops: a field missing, a field falsy, no payload.
InvalidPoints ==
  { Point(6, Num(0, 9500),
          Obj([ filePath |-> Str("f.ts"), startLine |-> Num(1, 0),
                endLine |-> Num(2, 0) ])),
    Point(7, Num(0, 6000),
          Payload(Str("g.ts"), Num(0, 0), Num(8, 0), Str("top()"))),
    Point(8, Num(0, 5000), Null) }

\* More of them: no payload key, an empty path, an empty code chunk, no
\* path key, no end line.
MoreInvalidPoints ==
  { Obj([id |-> Num(9, 0), score |-> Num(0, 8500)]),
    Point(10, Num(0, 7500),
          Payload(Str(""), Num(1, 0), Num(2, 0), Str("anon()"))),
    Point(15, Num(0, 7500),
          Payload(Str("n.ts"), Num(1, 0), Num(2, 0), Str(""))),
    Point(16, Num(0, 7500),
          Obj([ startLine |-> Num(1, 0), endLine |-> Num(2, 0),
                codeChunk |-> Str("lost()") ])),
    Point(17, Num(0, 7500),
          Obj([ filePath |-> Str("o.ts"), startLine |-> Num(1, 0),
                codeChunk |-> Str("open()") ])) }

\* Points on which the pipeline throws: a code chunk that is no string, no
\* score, a point that is null, a payload that is a string.
MalformedPoints ==
  { Point(11, Num(0, 6500),
          Payload(Str("k.ts"), Num(1, 0), Num(2, 0), Num(5, 0))),
    Obj([ id |-> Num(12, 0),
          payload |-> Payload(Str("l.ts"), Num(1, 0), Num(2, 0),
                              Str("nop()")) ]),
    Null,
    Point(14, Num(0, 5500), Str("m.ts")) }

SeqsUpTo(S, n) == UNION {[1..k -> S] : k \in 0..n}

\* The answers of the vector database: a list of points, or a body without
\* points.
QueryAnswers ==
  { Obj([points |-> Arr(ps)]) :
      ps \in SeqsUpTo(ValidPoints \cup InvalidPoints, MaxPoints) }
  \cup { Obj([points |-> Arr(ps)]) :
           ps \in SeqsUpTo({PointA} \cup MoreInvalidPoints
                             \cup MalformedPoints,
                           MaxAnyPoints) }
  \cup { Obj(NoFields) }

\* The answers under two concurrent invocations.
ConcQueryAnswers ==
  { Obj([points |-> Arr(ps)]) :
      ps \in SeqsUpTo({PointA, Point(8, Num(0, 5000), Null)},
                      MaxConcPoints) }
  \cup { Obj(NoFields) }

(***************************************************************************)
(* State.  Every variable but qdrantClient is a function of the            *)
(* invocation: the parameters and locals of its call of                    *)
(* executeSearchPipeline, which no other call can reach.                   *)
(***************************************************************************)
VARIABLES
  impl,               \* "plugin" or "tool": the implementation invoked
  directory,          \* the plugin's workspace directory
  qdrantClient,       \* the module-wide client handle of each implementation
  pc,                 \* where the invocation stands
  query,              \* args.query
  embeddingResponse,  \* the parsed body of the embedding response
  searchResults,      \* the points of the database's answer
  transformedResults, \* the list handed to formatResults
  sortedResults,      \* the sorted copy formatResults renders
  outcome,            \* the returned string, or the exception raised
  net,                \* the network requests issued, in order
  env,                \* the call and the answers it got, in order
  console             \* what was written with console.error

vars ==
  << impl, directory, qdrantClient, pc, query, embeddingResponse,
     searchResults, transformedResults, sortedResults, outcome, net, env,
     console >>

Impls == {"plugin", "tool"}

\* new QdrantClient({url}) of either module.
NewQdrantClients ==
  [ plugin |-> [url |-> ROO_SEARCH_CONFIG.qdrantClientUrl],
    tool |-> [url |-> "http://localhost:6333"] ]

InitOf(invocations) ==
  /\ impl \in [invocations -> Impls]
  /\ directory \in [invocations -> WorkspacePaths]
  /\ \A i \in invocations : impl[i] = "tool" => directory[i] = DeployedWorkspace
  /\ qdrantClient = NewQdrantClients
  /\ pc = [i \in invocations |-> "idle"]
  /\ query = [i \in invocations |-> ""]
  /\ embeddingResponse = [i \in invocations |-> Undefined]
  /\ searchResults = [i \in invocations |-> Undefined]
  /\ transformedResults = [i \in invocations |-> <<>>]
  /\ sortedResults = [i \in invocations |-> <<>>]
  /\ outcome = [i \in invocations |-> Pending]
  /\ net = [i \in invocations |-> <<>>]
  /\ env = [i \in invocations |-> <<>>]
  /\ console = [i \in invocations |-> <<>>]

\* The stage functions of the implementation invocation i runs.
EmbedRequestOf(i, input) ==
  IF impl[i] = "plugin" THEN createEmbeddingsRequest(input)
  ELSE ToolCreateEmbeddingsRequest(input)

NotOkOf(i, response) ==
  IF impl[i] = "plugin" THEN createEmbeddingsNotOk(response)
  ELSE ToolCreateEmbeddingsNotOk(response)

EmbedCatchOf(i, error) ==
  IF impl[i] = "plugin" THEN createEmbeddingsCatch(error)
  ELSE ToolCreateEmbeddingsCatch(error)

SearchRequestOf(i, embedding) ==
  IF impl[i] = "plugin" THEN searchRequest(embedding, directory[i])
  ELSE ToolSearchRequest(embedding)

SearchCatchOf(i, error) ==
  IF impl[i] = "plugin" THEN searchQdrantCatch(error)
  ELSE ToolSearchQdrantCatch(error)

PipelineCatchOf(i, error) ==
  IF impl[i] = "plugin" THEN executeSearchPipelineCatch(error)
  ELSE ToolExecuteSearchPipelineCatch(error)

\* Only the plugin logs: createEmbeddings in its catch, and the pipeline
\* in its own.
EmbedLog(i) ==
  IF impl[i] = "plugin" THEN <<"Embedding creation failed:">> ELSE <<>>

PipelineLog(i) ==
  IF impl[i] = "plugin" THEN <<"Error executing search pipeline:">> ELSE <<>>

\* An error reaches the catch of executeSearchPipeline: the invocation is
\* over.
Caught(i, error, logged) ==
  /\ pc' = [pc EXCEPT ![i] = "done"]
  /\ outcome' = [outcome EXCEPT ![i] = PipelineCatchOf(i, error)]
  /\ console' = [console EXCEPT ![i] = @ \o logged \o PipelineLog(i)]

\* An invocation that keeps the query in a variable of the module, which
\* every invocation in flight then reads.
InvokeSharedQuery(i, q) ==
  /\ pc[i] = "idle"
  /\ query' = [j \in DOMAIN pc |-> q]
  /\ net' = [net EXCEPT ![i] = Append(@, EmbedRequestOf(i, q))]
  /\ env' = [env EXCEPT ![i] = Append(@, [ev |-> "invoke", query |-> q])]
  /\ pc' = [pc EXCEPT ![i] = "fetch"]
  /\ UNCHANGED << impl, directory, qdrantClient, embeddingResponse,
                  searchResults, transformedResults, sortedResults, outcome,
                  console >>

\* The host calls execute(args): the pipeline starts and createEmbeddings
\* issues its fetch.
Invoke(i, q) ==
  /\ pc[i] = "idle"
  /\ query' = [query EXCEPT ![i] = q]
  /\ net' = [net EXCEPT ![i] = Append(@, EmbedRequestOf(i, q))]
  /\ env' = [env EXCEPT ![i] = Append(@, [ev |-> "invoke", query |-> q])]
  /\ pc' = [pc EXCEPT ![i] = "fetch"]
  /\ UNCHANGED << impl, directory, qdrantClient, embeddingResponse,
                  searchResults, transformedResults, sortedResults, outcome,
                  console >>

\* A createEmbeddings that answers a throwing fetch by fetching again.
FetchRejectsRetry(i, error) ==
  /\ pc[i] = "fetch"
  /\ env' = [env EXCEPT ![i] = Append(@, [ev |-> "fetchRejects",
                                           error |-> error])]
  /\ net' = [net EXCEPT ![i] = Append(@, EmbedRequestOf(i, query[i]))]
  /\ UNCHANGED << impl, directory, qdrantClient, pc, query,
                  embeddingResponse, searchResults, transformedResults,
                  sortedResults, outcome, console >>

\* fetch throws (DNS, connection refused, timeout).
FetchRejects(i, error) ==
  /\ pc[i] = "fetch"
  /\ env' = [env EXCEPT ![i] = Append(@, [ev |-> "fetchRejects",
                                           error |-> error])]
  /\ Caught(i, EmbedCatchOf(i, error), EmbedLog(i))
  /\ UNCHANGED << impl, directory, qdrantClient, query, embeddingResponse,
                  searchResults, transformedResults, sortedResults, net >>

\* fetch answers: a response that is not ok is thrown into the catch of
\* createEmbeddings, an ok one is parsed.
FetchResolves(i, response) ==
  /\ pc[i] = "fetch"
  /\ env' = [env EXCEPT ![i] = Append(@, [ev |-> "fetchResolves",
                                           response |-> response])]
  /\ IF ~response.ok
     THEN Caught(i, EmbedCatchOf(i, NotOkOf(i, response)), EmbedLog(i))
     ELSE /\ pc' = [pc EXCEPT ![i] = "json"]
          /\ UNCHANGED << outcome, console >>
  /\ UNCHANGED << impl, directory, qdrantClient, query, embeddingResponse,
                  searchResults, transformedResults, sortedResults, net >>

\* response.json() throws: the body is no JSON, or the connection broke.
JsonRejects(i, error) ==
  /\ pc[i] = "json"
  /\ env' = [env EXCEPT ![i] = Append(@, [ev |-> "jsonRejects",
                                           error |-> error])]
  /\ Caught(i, EmbedCatchOf(i, error), EmbedLog(i))
  /\ UNCHANGED << impl, directory, qdrantClient, query, embeddingResponse,
                  searchResults, transformedResults, sortedResults, net >>

\* The body is parsed: createEmbeddings returns it and searchQdrant builds
\* its request, which throws past searchQdrant's try block when there is no
\* list of embeddings, and else issues the query.
JsonResolves(i, data) ==
  /\ pc[i] = "json"
  /\ env' = [env EXCEPT ![i] = Append(@, [ev |-> "jsonResolves",
                                           data |-> data])]
  /\ embeddingResponse' = [embeddingResponse EXCEPT ![i] = data]
  /\ LET request == SearchRequestOf(i, data)
     IN  IF request.threw
         THEN /\ Caught(i, request.error, <<>>)
              /\ UNCHANGED net
         ELSE /\ net' = [net EXCEPT ![i] = Append(@, request.value)]
              /\ pc' = [pc EXCEPT ![i] = "query"]
              /\ UNCHANGED << outcome, console >>
  /\ UNCHANGED << impl, directory, qdrantClient, query, searchResults,
                  transformedResults, sortedResults >>

\* qdrantClient.query throws.
QueryRejects(i, error) ==
  /\ pc[i] = "query"
  /\ env' = [env EXCEPT ![i] = Append(@, [ev |-> "queryRejects",
                                           error |-> error])]
  /\ Caught(i, SearchCatchOf(i, error), <<>>)
  /\ UNCHANGED << impl, directory, qdrantClient, query, embeddingResponse,
                  searchResults, transformedResults, sortedResults, net >>

\* qdrantClient.query answers: its points are transformed and formatted,
\* and the report is returned.
QueryResolves(i, operationResult) ==
  /\ pc[i] = "query"
  /\ env' = [env EXCEPT ![i] = Append(@, [ev |-> "queryResolves",
                                           operationResult |-> operationResult])]
  /\ LET points == Get(operationResult, "points")
         transformed == transformResults(points)
         formatted == formatResults(transformed.value, query[i])
     IN  /\ searchResults' = [searchResults EXCEPT ![i] = points]
         /\ IF transformed.threw
            THEN /\ Caught(i, transformed.error, <<>>)
                 /\ UNCHANGED << transformedResults, sortedResults >>
            ELSE /\ transformedResults' =
                      [transformedResults EXCEPT ![i] = transformed.value]
                 /\ sortedResults' =
                      [sortedResults EXCEPT
                         ![i] = SortByScore(transformed.value)]
                 /\ IF formatted.threw
                    THEN Caught(i, formatted.error, <<>>)
                    ELSE /\ pc' = [pc EXCEPT ![i] = "done"]
                         /\ outcome' = [outcome EXCEPT
                                          ![i] = Returned(formatted.value)]
                         /\ UNCHANGED console
  /\ UNCHANGED << impl, directory, qdrantClient, query, embeddingResponse,
                  net >>

\* A step of invocation i, the database answering from `answers`.
Step(i, answers) ==
  \/ pc[i] = "idle" /\ \E q \in Queries : Invoke(i, q)
  \/ pc[i] = "fetch" /\ \E error \in ThrownValues : FetchRejects(i, error)
  \/ pc[i] = "fetch" /\ \E response \in Responses : FetchResolves(i, response)
  \/ pc[i] = "json" /\ \E error \in ThrownValues : JsonRejects(i, error)
  \/ pc[i] = "json" /\ \E data \in EmbeddingBodies : JsonResolves(i, data)
  \/ pc[i] = "query" /\ \E error \in ThrownValues : QueryRejects(i, error)
  \/ pc[i] = "query"
     /\ \E operationResult \in answers : QueryResolves(i, operationResult)

\* One invocation.
Init == InitOf({"call1"})
Next == \E i \in DOMAIN pc : Step(i, QueryAnswers)
Spec == Init /\ [][Next]_vars

\* Two invocations the host runs at the same time: their steps interleave
\* at every await.
InitConc == InitOf({"call1", "call2"})
NextConc == \E i \in DOMAIN pc : Step(i, ConcQueryAnswers)
SpecConc == InitConc /\ [][NextConc]_vars

(***************************************************************************)
(* Properties.                                                             *)
(***************************************************************************)
StartsWith(s, prefix) ==
  Len(s) >= Len(prefix) /\ SubSeq(s, 1, Len(prefix)) = prefix

Contains(s, part) ==
  \E k \in 0..(Len(s) - Len(part)) : SubSeq(s, k + 1, k + Len(part)) = part

Last(seq) == seq[Len(seq)]

\* Invocation i is over, and what its last answer was.
Done(i) == pc[i] = "done"
EndedBy(i, ev) == Done(i) /\ Last(env[i]).ev = ev

\* The events of invocation i's history of kind ev.
Events(i, ev) == SelectSeq(env[i], LAMBDA e : e.ev = ev)

\* The text of a report: its first line, and the lines only a report has.
IsReportOf(text, q) == StartsWith(text, "Query: \"" \o q \o "\"\n\n")
HasReportText(text) ==
  \/ Contains(text, "\n\nFound ")
  \/ Contains(text, "No results found.")
  \/ Contains(text, "Search completed with ")
  \/ Contains(text, "File: ")
  \/ Contains(text, Fence)
IsErrorText(text) == StartsWith(text, "Error executing search: ")

\* C1: an invocation never raises to its caller: whatever the embedding
\* service and the vector database answer (failures, malformed bodies,
\* malformed points), it ends by returning a string, a report on the query
\* or a text that starts with "Error executing search: "; and before it
\* ends nothing has been returned or raised.
C1_NeverRaises ==
  \A i \in DOMAIN pc :
    IF Done(i)
    THEN /\ outcome[i].kind = "returned"
         /\ \/ IsReportOf(outcome[i].value, query[i])
            \/ IsErrorText(outcome[i].value)
    ELSE outcome[i] = Pending

\* An invocation of the plugin that ended on a point that is null: the
\* TypeError of the filter was turned into the returned text.
C1_Witness ==
  \E i \in DOMAIN pc :
    /\ impl[i] = "plugin"
    /\ EndedBy(i, "queryResolves")
    /\ searchResults[i] = Arr(<<Null>>)
    /\ outcome[i].kind = "returned"
    /\ IsErrorText(outcome[i].value)

\* createEmbeddings failed in invocation i: fetch threw, the response was
\* not ok, or reading its body threw.
EmbeddingFailed(i) ==
  \/ Events(i, "fetchRejects") # <<>>
  \/ Events(i, "jsonRejects") # <<>>
  \/ \E k \in 1..Len(env[i]) :
       env[i][k].ev = "fetchResolves" /\ ~env[i][k].response.ok

\* C2: a failure of a network stage ends the invocation with an error text
\* that names the stage and carries the cause: after a failed embedding
\* call the returned string starts with "Error executing search: Embedding
\* creation failed", after a throwing database query it is "Error
\* executing search: Search operation failed: " and then the message of
\* the error thrown (the text "Unknown error" when the thrown value is no
\* Error object and has no message); and neither holds any report text.
C2_StageErrors ==
  \A i \in DOMAIN pc :
    /\ Done(i) /\ EmbeddingFailed(i) =>
         /\ outcome[i].kind = "returned"
         /\ StartsWith(outcome[i].value,
                       "Error executing search: Embedding creation failed")
         /\ ~HasReportText(outcome[i].value)
    /\ EndedBy(i, "queryRejects") =>
         LET error == Last(env[i]).error
         IN  /\ outcome[i].kind = "returned"
             /\ outcome[i].value =
                  "Error executing search: Search operation failed: "
                  \o (IF error.isError THEN error.message
                      ELSE "Unknown error")
             /\ ~HasReportText(outcome[i].value)

\* An invocation whose database query threw an Error with a message.
C2_Witness ==
  \E i \in DOMAIN pc :
    /\ EndedBy(i, "queryRejects")
    /\ Last(env[i]).error = NewError("Not Found")
    /\ outcome[i].kind = "returned"

\* The requests of a kind that invocation i issued.
Requests(i, kind) == SelectSeq(net[i], LAMBDA r : r.kind = kind)

\* C3: within an invocation the two network calls are sequential and never
\* retried: at most one embedding request and at most one database query
\* are issued; the query is issued only after the embedding request was
\* answered ok and its body parsed, and it carries the first vector of that
\* body; after a failed embedding call no query is issued.
C3_SequentialCalls ==
  \A i \in DOMAIN pc :
    /\ Len(Requests(i, "embed")) <= 1
    /\ Len(Requests(i, "query")) <= 1
    /\ pc[i] # "idle" => net[i][1].kind = "embed"
    /\ Requests(i, "query") # <<>> =>
         /\ Len(net[i]) = 2 /\ net[i][2].kind = "query"
         /\ Len(env[i]) >= 3
         /\ env[i][2].ev = "fetchResolves" /\ env[i][2].response.ok
         /\ env[i][3].ev = "jsonResolves"
         /\ LET vectors == env[i][3].data.fields.embeddings.items
            IN  net[i][2].query =
                  (IF vectors = <<>> THEN Undefined ELSE vectors[1])
    /\ EmbeddingFailed(i) => Requests(i, "query") = <<>>

\* An invocation that issued both calls, the body holding two vectors.
C3_Witness ==
  \E i \in DOMAIN pc :
    /\ Done(i)
    /\ Len(net[i]) = 2
    /\ net[i][2].query = Vector2
    /\ Len(embeddingResponse[i].fields.embeddings.items) = 2

\* What the claims call falsy, and a complete point: an object whose
\* payload is an object that holds all four required fields, none falsy.
FalsyValues == {Undefined, Null, Num(0, 0), Str("")}
RequiredFields == {"filePath", "startLine", "endLine", "codeChunk"}
HasAllFields(point) ==
  /\ point.t = "object"
  /\ "payload" \in DOMAIN point.fields
  /\ point.fields.payload.t = "object"
  /\ \A f \in RequiredFields :
       /\ f \in DOMAIN point.fields.payload.fields
       /\ point.fields.payload.fields[f] \notin FalsyValues

\* A point the pipeline can read without a TypeError: an object whose
\* payload is absent, null or an object, with a code chunk that is a string
\* when it has all four fields.
WellFormed(point) ==
  /\ point.t = "object"
  /\ Get(point, "payload").t \in {"undefined", "null", "object"}
  /\ HasAllFields(point) => point.fields.payload.fields.codeChunk.t = "string"

\* How often part occurs in text.
Occurrences(text, part) ==
  Cardinality({k \in 0..(Len(text) - Len(part)) :
                 SubSeq(text, k + 1, k + Len(part)) = part})

\* Invocation i returned a report.
Reported(i) ==
  /\ EndedBy(i, "queryResolves")
  /\ outcome[i].kind = "returned"
  /\ IsReportOf(outcome[i].value, query[i])

\* C4: the filter keeps exactly the points that have a payload holding
\* filePath, startLine, endLine and codeChunk, none of them falsy (0 and the
\* empty string included), and drops a point whose payload is absent or
\* null; so in a run that returns a report every rendered block comes from
\* a complete point, there are as many blocks as complete points, and no
\* dropped point is rendered.
C4_OnlyValidPointsRendered ==
  \A i \in DOMAIN pc :
    /\ ( /\ EndedBy(i, "queryResolves")
         /\ searchResults[i].t = "array"
         /\ ~filterValidResults(searchResults[i]).threw ) =>
         filterValidResults(searchResults[i]).value
           = SelectSeq(searchResults[i].items, HasAllFields)
    /\ Reported(i) =>
         LET raw == searchResults[i].items
             complete == SelectSeq(raw, HasAllFields)
             text == outcome[i].value
         IN  /\ Len(transformedResults[i]) = Len(complete)
             /\ Occurrences(text, "File: ") = Len(complete)
             /\ \A k \in 1..Len(transformedResults[i]) :
                  \E j \in 1..Len(raw) :
                    /\ HasAllFields(raw[j])
                    /\ transformedResults[i][k].filePath
                         = raw[j].fields.payload.fields.filePath
             /\ \A j \in 1..Len(raw) :
                  ( /\ ~HasAllFields(raw[j])
                    /\ Get(raw[j], "payload").t = "object" ) =>
                    ~Contains(text,
                              "File: "
                              \o TemplateString(Get(raw[j].fields.payload,
                                                    "filePath"))
                              \o "\n")

\* A report on an answer of a complete point, a point whose startLine is 0
\* and a point whose payload is null: one block.
C4_Witness ==
  \E i \in DOMAIN pc :
    /\ Reported(i)
    /\ Len(searchResults[i].items) = 3
    /\ \E j \in 1..3 : /\ Get(searchResults[i].items[j], "payload").t = "object"
                       /\ Get(searchResults[i].items[j].fields.payload,
                              "startLine") = Num(0, 0)
    /\ \E j \in 1..3 : Get(searchResults[i].items[j], "payload") = Null
    /\ Len(transformedResults[i]) = 1
    /\ Occurrences(outcome[i].value, "File: ") = 1

\* A point the filter drops.
Droppable(point) == WellFormed(point) /\ ~HasAllFields(point)

\* C6: on an empty list of results the report is exactly the line
\* Query: "<query>", a blank line and No results found. with nothing
\* after it: both when the database answers with no points and when the
\* filter drops every point of its answer.
C6_NoResults ==
  \A i \in DOMAIN pc :
    ( /\ EndedBy(i, "queryResolves")
      /\ searchResults[i].t = "array"
      /\ \A j \in 1..Len(searchResults[i].items) :
           Droppable(searchResults[i].items[j]) ) =>
      /\ transformedResults[i] = <<>>
      /\ outcome[i] = Returned("Query: \"" \o query[i]
                               \o "\"\n\nNo results found.")

\* A report on an answer whose points were all dropped.
C6_Witness ==
  \E i \in DOMAIN pc :
    /\ Reported(i)
    /\ Len(searchResults[i].items) = 2
    /\ transformedResults[i] = <<>>
    /\ outcome[i].value = "Query: \"x\"\n\nNo results found."

\* trimmed is text without its leading and trailing whitespace.
IsTrimOf(trimmed, text) ==
  /\ trimmed # "" => /\ ~IsWhitespace(Head(trimmed))
                     /\ ~IsWhitespace(SubSeq(trimmed, Len(trimmed),
                                             Len(trimmed)))
  /\ \E k \in 0..(Len(text) - Len(trimmed)) :
       /\ SubSeq(text, k + 1, k + Len(trimmed)) = trimmed
       /\ \A j \in (1..k) \cup ((k + Len(trimmed) + 1)..Len(text)) :
            IsWhitespace(SubSeq(text, j, j))

\* C9: transform returns one result for each point the filter keeps, in
\* the order of the input, with filePath, score, startLine and endLine
\* copied from the point and codeChunk the payload's code chunk without
\* its leading and trailing whitespace.
C9_Transform ==
  \A i \in DOMAIN pc :
    ( /\ EndedBy(i, "queryResolves")
      /\ searchResults[i].t = "array"
      /\ \A j \in 1..Len(searchResults[i].items) :
           WellFormed(searchResults[i].items[j]) ) =>
      LET kept == SelectSeq(searchResults[i].items, HasAllFields)
          results == transformedResults[i]
      IN  /\ Len(results) = Len(kept)
          /\ \A k \in 1..Len(kept) :
               LET payload == kept[k].fields.payload.fields
               IN  /\ results[k].filePath = payload.filePath
                   /\ results[k].score = Get(kept[k], "score")
                   /\ results[k].startLine = payload.startLine
                   /\ results[k].endLine = payload.endLine
                   /\ IsTrimOf(results[k].codeChunk, payload.codeChunk.s)

\* The answer of a.ts (score 0.8, lines 10-20, code "  foo()  ") and a
\* point without a code chunk: one result, its code foo().
C9_Witness ==
  \E i \in DOMAIN pc :
    /\ Reported(i)
    /\ Len(searchResults[i].items) = 2
    /\ HasAllFields(searchResults[i].items[1])
    /\ searchResults[i].items[1].fields.payload.fields.codeChunk
         = Str("  foo()  ")
    /\ Get(searchResults[i].items[2], "payload").t = "object"
    /\ "codeChunk" \notin DOMAIN searchResults[i].items[2].fields.payload.fields
    /\ transformedResults[i] =
         << [ t |-> "result", filePath |-> Str("a.ts"),
              score |-> Num(0, 8000), startLine |-> Num(10, 0),
              endLine |-> Num(20, 0), codeChunk |-> "foo()" ] >>
    /\ Contains(outcome[i].value, "Found 1 result:")

EndsWith(text, suffix) ==
  /\ Len(text) >= Len(suffix)
  /\ SubSeq(text, Len(text) - Len(suffix) + 1, Len(text)) = suffix

\* The block of a result, as the report shows it.
BlockOf(result) ==
  "File: " \o result.filePath.s \o "\n"
  \o "Score: " \o ToFixed3(result.score.n) \o "\n"

\* C5: of a list of results that is not empty, format renders the blocks by
\* descending score (0.9, 0.3, 0.7 come out as 0.9, 0.7, 0.3), results of
\* equal score in the order of the input, every result once; and the list
\* handed in keeps its order.
C5_SortedByScore ==
  \A i \in DOMAIN pc :
    (Reported(i) /\ transformedResults[i] # <<>>) =>
      LET input == transformedResults[i]
          sorted == sortedResults[i]
          text == outcome[i].value
          scores == {input[k].score : k \in 1..Len(input)}
      IN  /\ \A a \in 1..Len(sorted) : \A b \in a..Len(sorted) :
               sorted[a].score.n >= sorted[b].score.n
          /\ Len(sorted) = Len(input)
          /\ \A v \in scores :
               SelectSeq(sorted, LAMBDA r : r.score = v)
                 = SelectSeq(input, LAMBDA r : r.score = v)
          /\ Occurrences(text, "File: ") = Len(input)
          /\ Contains(text,
                      Join([k \in 1..Len(sorted) |->
                              formatSearchResult(sorted[k]).value], "\n\n"))
          /\ \A k \in 1..Len(sorted) : Contains(text, BlockOf(sorted[k]))
          /\ input = transformResults(searchResults[i]).value

\* Results of scores 0.9, 0.3, 0.7, in this order, rendered as 0.9, 0.7,
\* 0.3.
C5_Witness ==
  \E i \in DOMAIN pc :
    /\ Reported(i)
    /\ [k \in 1..Len(transformedResults[i]) |->
          transformedResults[i][k].score]
         = <<Num(0, 9000), Num(0, 3000), Num(0, 7000)>>
    /\ Contains(outcome[i].value,
                "Score: 0.900\nLines: 1-5\nCode:\n~~~\nbar()\n~~~\n\n\n"
                \o "File: d.ts\nScore: 0.700\nLines: 3-4\nCode:\n~~~\n"
                \o "qux()\n~~~\n\n\nFile: c.ts\nScore: 0.300\n")

\* C7: a report on one result says "Found 1 result:" and "Search completed
\* with 1 result."; a report on two or more says "results" in both places;
\* the number in both places is the number of blocks rendered, which is the
\* number of points that passed the filter, not the number of points the
\* database returned; a report on no result says "No results found." and
\* shows neither line.
C7_PluralAndCount ==
  \A i \in DOMAIN pc :
    Reported(i) =>
      LET n == Len(transformedResults[i])
          text == outcome[i].value
          count == ToString(n)
      IN  /\ n = Len(SelectSeq(searchResults[i].items, HasAllFields))
          /\ Occurrences(text, "File: ") = n
          /\ n = 1 =>
               /\ Contains(text, "\n\nFound 1 result:\n\n")
               /\ EndsWith(text, "\n\n---\nSearch completed with 1 result.")
          /\ n >= 2 =>
               /\ Contains(text, "\n\nFound " \o count \o " results:\n\n")
               /\ EndsWith(text, "\n\n---\nSearch completed with " \o count
                                 \o " results.")
          /\ n = 0 =>
               /\ EndsWith(text, "\n\nNo results found.")
               /\ ~Contains(text, "Found ")
               /\ ~Contains(text, "Search completed")
          /\ Occurrences(text, "\n\nFound ") <= 1
          /\ Occurrences(text, "Search completed with ") <= 1

\* A report on one result of three points returned.
C7_Witness ==
  \E i \in DOMAIN pc :
    /\ Reported(i)
    /\ Len(searchResults[i].items) = 3
    /\ Len(transformedResults[i]) = 1
    /\ Contains(outcome[i].value, "\n\nFound 1 result:\n\n")
    /\ EndsWith(outcome[i].value, "Search completed with 1 result.")

\* The parameters and locals of invocation i.
Local(i) ==
  << impl[i], directory[i], pc[i], query[i], embeddingResponse[i],
     searchResults[i], transformedResults[i], sortedResults[i], outcome[i],
     net[i], env[i], console[i] >>

\* What invocation i comes to when it runs alone: a function of its
\* implementation, its workspace directory, its query and the answers to
\* its own network calls (env[i]), and of nothing else.
AloneOutcome(i) ==
  LET e == env[i]
      caught(error) == PipelineCatchOf(i, error)
  IN  IF Len(e) < 2 THEN Pending
      ELSE IF e[2].ev = "fetchRejects"
      THEN caught(EmbedCatchOf(i, e[2].error))
      ELSE IF ~e[2].response.ok
      THEN caught(EmbedCatchOf(i, NotOkOf(i, e[2].response)))
      ELSE IF Len(e) < 3 THEN Pending
      ELSE IF e[3].ev = "jsonRejects"
      THEN caught(EmbedCatchOf(i, e[3].error))
      ELSE LET request == SearchRequestOf(i, e[3].data)
           IN  IF request.threw THEN caught(request.error)
               ELSE IF Len(e) < 4 THEN Pending
               ELSE IF e[4].ev = "queryRejects"
               THEN caught(SearchCatchOf(i, e[4].error))
               ELSE LET transformed ==
                          transformResults(Get(e[4].operationResult, "points"))
                        formatted ==
                          formatResults(transformed.value, e[1].query)
                    IN  IF transformed.threw THEN caught(transformed.error)
                        ELSE IF formatted.threw THEN caught(formatted.error)
                        ELSE Returned(formatted.value)

AloneNet(i) ==
  LET e == env[i]
  IN  IF e = <<>> THEN <<>>
      ELSE <<EmbedRequestOf(i, e[1].query)>>
           \o (IF /\ Len(e) >= 3
                  /\ e[3].ev = "jsonResolves"
                  /\ ~SearchRequestOf(i, e[3].data).threw
               THEN <<SearchRequestOf(i, e[3].data).value>>
               ELSE <<>>)

\* C8 (state): what an invocation has returned and the requests it has
\* issued are those of the invocation run alone on its own query, path and
\* answers, and the client handles are as constructed.
C8_OwnInputsOnly ==
  /\ qdrantClient = NewQdrantClients
  /\ \A i \in DOMAIN pc :
       /\ outcome[i] = AloneOutcome(i)
       /\ net[i] = AloneNet(i)
       /\ pc[i] # "idle" => query[i] = env[i][1].query

\* C8 (step): a step is a step of one invocation: it leaves the parameters
\* and locals of every other invocation, and the client handles, as they
\* are.
C8_OneInvocationPerStep ==
  /\ qdrantClient' = qdrantClient
  /\ \E i \in DOMAIN pc : \A j \in DOMAIN pc \ {i} : Local(j)' = Local(j)

\* C8: invocations the host runs at the same time are independent, however
\* their network calls interleave: the string each returns is determined
\* by its own query, its own workspace path and the answers to its own two
\* calls; no invocation changes what another reads; and the shared client
\* handle is never changed.
C8_Independent == []C8_OwnInputsOnly /\ [][C8_OneInvocationPerStep]_vars

\* Two invocations of different queries in flight at once, one waiting for
\* the database and one for the embedding body.
C8_Witness ==
  /\ pc["call1"] = "query"
  /\ pc["call2"] = "json"
  /\ query["call1"] # query["call2"]

\* C10: the hardcoded tool behaves as the plugin run on a workspace whose
\* collection name is ws-e9be3207f7247f18: given the same query and the
\* same answers of the embedding service and the database, the two have
\* issued the same network requests, stand at the same place and have
\* returned the same string.
C10_ToolIsPluginOnDeployedWorkspace ==
  \A i \in DOMAIN pc : \A j \in DOMAIN pc :
    ( /\ impl[i] = "plugin"
      /\ impl[j] = "tool"
      /\ getWorkspaceVectorStoreName(directory[i]) = "ws-e9be3207f7247f18"
      /\ env[i] = env[j] ) =>
      /\ net[i] = net[j]
      /\ pc[i] = pc[j]
      /\ outcome[i] = outcome[j]

\* The plugin on the deployed workspace and the tool, both with a report on
\* the same answers.
C10_Witness ==
  \E i \in DOMAIN pc : \E j \in DOMAIN pc :
    /\ impl[i] = "plugin"
    /\ impl[j] = "tool"
    /\ getWorkspaceVectorStoreName(directory[i]) = "ws-e9be3207f7247f18"
    /\ env[i] = env[j]
    /\ Reported(i)
    /\ Reported(j)
    /\ Len(net[j]) = 2
    /\ Contains(outcome[j].value, "Found 1 result:")

=============================================================================
